---- MODULE Spec2Model ----
(***************************************************************************)
(* Model of the sample-until library: the three entry points               *)
(*   sample_until            (src/src/sample_until/sample_until.py)        *)
(*   folded_sample_until     (src/src/sample_until/sample_until_folded.py) *)
(*   sample_until_time_elapsed (src/src/sample_until/time_elapsed.py)      *)
(* with their argument checks (utils.py), the stopping conditions          *)
(* (stopping_conditions.py), the sequential samplers, the worker fan-out   *)
(* and the folding pipeline (workers, bounded queue, aggregator, caller).  *)
(*                                                                         *)
(* Conventions.                                                            *)
(*  - Time is a discrete clock `now`; durations are in ticks.              *)
(*  - Memory fractions are integer percents (0.8 is 80); the host reading  *)
(*    `mem` is one of MemLevels, all below 100.                            *)
(*  - The input stream f_args yields the item ArgAt(p) at position p; the  *)
(*    sampled function is f; a fold is recorded as the sequence of the     *)
(*    samples combined so far, in combine order (acc = fold_function(acc,  *)
(*    x) appends x), and FoldSum gives its value for combine = +.          *)
(*  - stop(conditions, progress): progress is the number of samples; the   *)
(*    callers in sample_until_folded.py pass the counter i, those of the   *)
(*    list-based samplers the list, whose len is that number.  The callers *)
(*    in utils.py and sample_until_folded.py pass no size_mb, which the    *)
(*    model binds to None (no OutputSize condition is registered).         *)
(*    create_stopping_conditions and stop are also run on their own, with  *)
(*    a size_mb argument (SpecStop).                                       *)
(***************************************************************************)
EXTENDS Integers, Sequences, FiniteSets, TLC

\* ------------------------------------------------------------------ bounds
MaxLen == 3          \* longest finite input stream
MaxSteps == 4        \* cap on the items one sampler draws (unbounded streams)
MaxTime == 2         \* the clock stops ticking here
MaxWorkers == 3      \* largest num_workers requested
MaxCount == 4        \* largest num_samples of a parallel run
MaxBatch == 2        \* largest batch_size
MaxPolls == 2        \* cap on the timeouts of the caller's poll loop

\* ------------------------------------------------------- program constants
None == -1000                \* Python's None for an optional numeric argument
sys_maxsize == 2147483647    \* num_samples = sys.maxsize when None
float_inf == 2147483646      \* duration_seconds = float("inf") when None
cpu_count == 2               \* mp.cpu_count() of the host
QueueFactor == 2             \* mp.Queue(2 * num_workers)
fold_initial == 10           \* the initial accumulator of the fold tests

\* the host memory readings, in percent
MemLevels == {30, 70}
Workers == 0 .. (MaxWorkers - 1)

\* variant of ceil_div: the share rounded down
floor_div(a, n) == IF a >= 0 THEN a \div n ELSE -(((-a) + n - 1) \div n)

\* ceil(a / n) for n > 0, as math.ceil of Python's true division
ceil_div(a, n) ==
  IF a >= 0 THEN (a \div n) + (IF a % n = 0 THEN 0 ELSE 1)
  ELSE -((-a) \div n)

\* the item of the input stream at position p: the canonical streams and the
\* test streams yield p itself; f_args = None yields None (repeat(None))
ArgAt(kind, p) == IF kind = "none" THEN None ELSE p

\* the sampled function: f() is a constant, f(a) is injective in a
f(a) == IF a = None THEN 1 ELSE 2 * a + 1

\* ------------------------------------------------------------------ state
VARIABLES
  entry,     \* the entry point called
  args,      \* its arguments
  pc,        \* where the caller is
  err,       \* the error raised to the caller ("none" if none)
  warns,     \* the advisories emitted by the caller, in order
  now,       \* time.time()
  mem,       \* psutil.virtual_memory()[2], in percent
  lim,       \* sample_until / sample_until_time_elapsed: the limits handed to the samplers
  conds,     \* folded_sample_until: the stopping conditions handed to the samplers
  nsamplers, \* number of sampling tasks of the run
  w,         \* the samplers: position in their loop and their local variables
  acc,       \* the accumulator: the samples folded so far, in fold order
  jx,        \* the caller's index into `processes` while it joins them
  queue,     \* output_queue: batches and DoneSignals (folded), local lists (otherwise)
  agg,       \* the aggregator process and its local variables
  aggq,      \* aggregator_queue: the one-shot result channel
  polls,     \* number of aggregator_queue.get timeouts the caller has seen
  result     \* what the call returned

vars == <<entry, args, pc, err, warns, now, mem, lim, conds, nsamplers, w, acc,
          jx, queue, agg, aggq, polls, result>>

\* a sampler before its first iteration
w_init == [pc |-> "off", pos |-> 0, samples |-> <<>>, i |-> 0, batch |-> <<>>,
           msg |-> "none", evaluated |-> <<>>]

\* num_args of a callable whose signature cannot be inspected (the callers
\* keep their default and warn)
Unknown == -1

Finite(kind) == kind \in {"sized", "unsized"}

\* ------------------------------------------------------ argument checking
\* utils._check_f_valid, and the same lines inlined in sample_until
check_f_valid(a) ==
  IF a.num_args = 0 /\ a.f_kind # "none" THEN "arity"
  ELSE IF a.num_args = 1 /\ a.f_kind = "none" THEN "arity"
  ELSE IF a.num_args > 1 THEN "arity"
  ELSE "ok"

\* variant of set_num_workers: only 0 is rejected, a negative count is
\* taken as its magnitude
set_num_workers_abs(num_workers) ==
  IF num_workers = None THEN 1
  ELSE IF num_workers = -1 THEN cpu_count
  ELSE IF num_workers < -1 THEN -num_workers
  ELSE num_workers

\* utils._set_num_workers: the resolved worker count, 0 standing for the raise

set_num_workers(num_workers) ==
  IF num_workers = None THEN 1
  ELSE IF num_workers = -1 THEN cpu_count
  ELSE IF num_workers <= 0 THEN 0
  ELSE num_workers

\* stopping_conditions.create_stopping_conditions: the conditions in
\* registration order, before their __post_init__ checks
create_stopping_conditions(num_workers, duration_seconds, num_samples, memory_percentage, size_mb, t) ==
  (IF duration_seconds # None
     THEN <<[kind |-> "TimeElapsed", start_time |-> t,
             limit |-> duration_seconds, div |-> 1, size_estimate |-> 0]>>
     ELSE <<>>)
  \o (IF num_samples # None
        THEN <<[kind |-> "NumSamples", start_time |-> 0,
                limit |-> ceil_div(num_samples, num_workers), div |-> 1,
                size_estimate |-> 0]>>
        ELSE <<>>)
  \o (IF memory_percentage # None
        THEN <<[kind |-> "MemoryPercentage", start_time |-> 0,
                limit |-> memory_percentage, div |-> 1, size_estimate |-> 0]>>
        ELSE <<>>)
  \o (IF size_mb # None
        THEN <<[kind |-> "OutputSize", start_time |-> 0,
                limit |-> size_mb, div |-> num_workers, size_estimate |-> 0]>>
        ELSE <<>>)

\* the __post_init__ of one condition: the error it raises, or "ok"
post_init(sc) ==
  CASE sc.kind = "TimeElapsed" ->
         IF sc.limit <= 0 THEN "duration" ELSE "ok"
    [] sc.kind = "NumSamples" ->
         IF sc.limit <= 0 THEN "num_samples" ELSE "ok"
    [] sc.kind = "MemoryPercentage" ->
         IF sc.limit < 0 \/ sc.limit > 100 THEN "memory" ELSE "ok"
    [] sc.kind = "OutputSize" ->
         IF sc.limit <= 0 THEN "size" ELSE "ok"

\* the first __post_init__ that raises while the list is built, or "ok"
RECURSIVE conditions_error(_)
conditions_error(scs) ==
  IF scs = <<>> THEN "ok"
  ELSE IF post_init(Head(scs)) # "ok" THEN post_init(Head(scs))
  ELSE conditions_error(Tail(scs))

\* utils._check_stopping_conditions, f_args = None already replaced by
\* itertools.repeat(None): "no_stopping_condition" for the raise
check_stopping_conditions(scs, f_kind) ==
  IF Len(scs) = 0 /\ ~Finite(f_kind) THEN "no_stopping_condition" ELSE "ok"

\* variant of finiteness_warning: the Sized test is left out
finiteness_warning_always(noConditions, f_kind) ==
  IF noConditions /\ Finite(f_kind) THEN <<"finiteness_unknown">> ELSE <<>>

\* the advisory of _check_stopping_conditions
finiteness_warning(noConditions, f_kind) ==
  IF noConditions /\ Finite(f_kind) /\ f_kind # "sized"
    THEN <<"finiteness_unknown">> ELSE <<>>

arity_warning(n) == IF n = Unknown THEN <<"arity_unknown">> ELSE <<>>

\* utils.check_fold_function
check_fold_function(a) ==
  IF a.fold_num_args # Unknown /\ a.fold_num_args # 2 THEN "fold_arity" ELSE "ok"

\* ------------------------------------------------- the entry points' checks
\* Each gives [err, warns, num_workers]: the error raised ("ok" if none), the
\* advisories emitted before it, and the resolved worker count.

no_conditions(a) ==
  a.duration_seconds = None /\ a.num_samples = None /\ a.memory_percentage = None

\* the substituted limits of sample_until ("Replace None with large values")
su_duration(a) == IF a.duration_seconds = None THEN float_inf ELSE a.duration_seconds
su_num_samples(a) == IF a.num_samples = None THEN sys_maxsize ELSE a.num_samples
su_memory(a) == IF a.memory_percentage = None THEN 100 ELSE a.memory_percentage
su_num_workers(a) ==
  IF a.num_workers = None THEN 1
  ELSE IF a.num_workers = -1 THEN cpu_count
  ELSE a.num_workers

\* sample_until's "Check for validity" block
su_validity(a) ==
  IF su_duration(a) <= 0 THEN "duration"
  ELSE IF su_num_samples(a) < 0 THEN "num_samples"
  ELSE IF su_memory(a) < 0 \/ su_memory(a) > 100 THEN "memory"
  ELSE IF su_num_workers(a) < 1 THEN "num_workers"
  ELSE "ok"

sample_until_checks(a) ==
  LET e1 == check_f_valid(a)
      e2 == IF no_conditions(a) /\ ~Finite(a.f_kind)
              THEN "no_stopping_condition" ELSE "ok"
  IN  [err |-> IF e1 # "ok" THEN e1 ELSE IF e2 # "ok" THEN e2 ELSE su_validity(a),
       warns |-> arity_warning(a.num_args)
                 \o (IF e1 = "ok" THEN finiteness_warning(no_conditions(a), a.f_kind)
                     ELSE <<>>),
       num_workers |-> su_num_workers(a)]

\* utils.sanitize_inputs followed by check_fold_function
sanitize_inputs(a, t) ==
  LET e1 == check_f_valid(a)
      nw == set_num_workers(a.num_workers)
      scs == create_stopping_conditions(nw, a.duration_seconds, a.num_samples,
                                        a.memory_percentage, None, t)
      e3 == conditions_error(scs)
      e4 == check_stopping_conditions(scs, a.f_kind)
      e5 == check_fold_function(a)
  IN  [err |-> IF e1 # "ok" THEN e1
               ELSE IF nw = 0 THEN "num_workers"
               ELSE IF e3 # "ok" THEN e3
               ELSE IF e4 # "ok" THEN e4
               ELSE e5,
       warns |-> arity_warning(a.num_args)
                 \o (IF e1 = "ok" /\ nw # 0 /\ e3 = "ok"
                       THEN finiteness_warning(Len(scs) = 0, a.f_kind)
                            \o (IF e4 = "ok" /\ a.fold_num_args = Unknown
                                  THEN <<"fold_arity_unknown">> ELSE <<>>)
                       ELSE <<>>),
       num_workers |-> nw]

\* sample_until_time_elapsed's checks
time_elapsed_checks(a) ==
  [err |-> IF su_num_workers(a) < 1 THEN "num_workers"
           ELSE IF a.duration_seconds <= 0 THEN "duration"
           ELSE "ok",
   warns |-> <<>>,
   num_workers |-> su_num_workers(a)]

checks(e, a, t) ==
  CASE e = "sample_until" -> sample_until_checks(a)
    [] e = "folded_sample_until" -> sanitize_inputs(a, t)
    [] e = "sample_until_time_elapsed" -> time_elapsed_checks(a)

\* ------------------------------------------------------ stopping conditions
\* OutputSize._estimate_size(samples[:n]): the serialized size of the first
\* n samples, the first one (with the list's own bytes) taking
\* args.first_size and every further one args.sample_size
estimate_size(n) == IF n = 0 THEN 0 ELSE args.first_size + (n - 1) * args.sample_size

\* variant of output_size_estimate: the size of samples[:1] is not subtracted
output_size_estimate_whole(sc, progress) ==
  IF sc.size_estimate = 0 /\ progress > 1 THEN estimate_size(2) ELSE sc.size_estimate

\* OutputSize.stop(samples): size_estimate when the call ends; it is set,
\* while still 0.0, by a call with len(samples) > 1
output_size_estimate(sc, progress) ==
  IF sc.size_estimate = 0 /\ progress > 1
    THEN estimate_size(2) - estimate_size(1)
    ELSE sc.size_estimate

\* OutputSize.stop(samples): the value returned; the limit is
\* size_mb / num_workers
output_size_stop(sc, progress) ==
  IF sc.size_estimate = 0 /\ progress <= 1
    THEN FALSE
    ELSE output_size_estimate(sc, progress) * progress * sc.div >= sc.limit

\* <Condition>.stop(samples), `progress` being len(samples)
sc_stop(sc, progress) ==
  CASE sc.kind = "TimeElapsed" -> (now - sc.start_time) >= sc.limit
    [] sc.kind = "NumSamples" -> progress >= sc.limit
    [] sc.kind = "MemoryPercentage" -> mem >= sc.limit
    [] sc.kind = "OutputSize" -> output_size_stop(sc, progress)

\* <Condition>.stop_message()
stop_message(sc) ==
  CASE sc.kind = "TimeElapsed" -> "time elapsed"
    [] sc.kind = "NumSamples" -> "number of samples reached"
    [] sc.kind = "MemoryPercentage" -> "memory usage exceeded"
    [] sc.kind = "OutputSize" -> "output size exceeded"

\* variant of stop_loop: a satisfied condition does not end the loop, the
\* last satisfied one is reported
RECURSIVE stop_loop_all(_, _, _)
stop_loop_all(scs, progress, k) ==
  IF k > Len(scs) THEN [index |-> 0, evaluated |-> <<>>]
  ELSE LET r == stop_loop_all(scs, progress, k + 1) IN
       [index |-> IF r.index # 0 THEN r.index
                  ELSE IF sc_stop(scs[k], progress) THEN k ELSE 0,
        evaluated |-> <<k>> \o r.evaluated]

\* stopping_conditions.stop, the loop `for sc in stopping_conditions` from
\* the k-th condition on: the index of the condition whose message is
\* printed (0 when the loop ends and stop returns False) and the conditions
\* whose stop() was called, in call order
RECURSIVE stop_loop(_, _, _)
stop_loop(scs, progress, k) ==
  IF k > Len(scs) THEN [index |-> 0, evaluated |-> <<>>]
  ELSE IF sc_stop(scs[k], progress) THEN [index |-> k, evaluated |-> <<k>>]
  ELSE LET r == stop_loop(scs, progress, k + 1) IN
       [index |-> r.index, evaluated |-> <<k>> \o r.evaluated]

stop_index(scs, progress) == stop_loop(scs, progress, 1).index

\* the conditions after stop(scs, samples): an OutputSize condition whose
\* stop() was called keeps the estimate that call left
after_stop(scs, progress) ==
  LET ev == stop_loop(scs, progress, 1).evaluated IN
  [k \in 1 .. Len(scs) |->
     IF scs[k].kind = "OutputSize" /\ (\E j \in 1 .. Len(ev) : ev[j] = k)
       THEN [scs[k] EXCEPT !.size_estimate = output_size_estimate(scs[k], progress)]
       ELSE scs[k]]

stop(scs, progress) == stop_index(scs, progress) # 0

\* ------------------------------------------------------- the input streams
\* variant of slice_pos: the step is one more than the number of samplers
slice_pos_wide(k, n, j) == k + j * (n + 1)

\* islice(f_args, k, None, n): the position in f_args of the slice's j-th item
slice_pos(k, n, j) == k + j * n

\* variant of exhausted: the slice is read one position past the end
exhausted_late(a, k, n, j) == Finite(a.f_kind) /\ slice_pos(k, n, j) > a.f_len

\* the slice of sampler k of n has no j-th item
exhausted(a, k, n, j) == Finite(a.f_kind) /\ slice_pos(k, n, j) >= a.f_len

\* ------------------------------------------------- the sequential samplers
\* Each operator is one pass through the sampler's loop for the sampler
\* record r: the loop test and, when it holds, the loop body.

\* variant of su_continue: the count test admits one more sample
su_continue_one_more(r, l) ==
  /\ (now - l.start_time) < l.duration
  /\ Len(r.samples) <= l.num_samples
  /\ mem < l.memory_percentage

\* the loop test of sample_until._sample_until (negated in _sample_until_f_args)
su_continue(r, l) ==
  /\ (now - l.start_time) < l.duration
  /\ Len(r.samples) < l.num_samples
  /\ mem < l.memory_percentage

\* sample_until._sample_until
sample_until_pass(r, l) ==
  IF su_continue(r, l)
    THEN [r EXCEPT !.samples = Append(@, f(None))]
    ELSE [r EXCEPT !.pc = "stopped"]

\* sample_until._sample_until_f_args over islice(f_args, k, None, n)
sample_until_f_args_pass(r, l, a, k, n) ==
  IF exhausted(a, k, n, r.pos) THEN [r EXCEPT !.pc = "stopped"]
  ELSE IF ~su_continue(r, l) THEN [r EXCEPT !.pc = "stopped", !.pos = @ + 1]
  ELSE [r EXCEPT !.pos = @ + 1,
                 !.samples = Append(@, f(ArgAt(a.f_kind, slice_pos(k, n, r.pos))))]

\* variant of time_elapsed_pass: the loop goes on while elapsed <= duration
time_elapsed_pass_late(r, l) ==
  IF (now - l.start_time) <= l.duration
    THEN [r EXCEPT !.samples = Append(@, f(None))]
    ELSE [r EXCEPT !.pc = "stopped"]

\* time_elapsed._sample_until_time_elapsed
time_elapsed_pass(r, l) ==
  IF (now - l.start_time) < l.duration
    THEN [r EXCEPT !.samples = Append(@, f(None))]
    ELSE [r EXCEPT !.pc = "stopped"]

\* the sampler of the entry point, for sampler k of n
sampler_pass(r, k, n) ==
  CASE entry = "sample_until" /\ args.f_kind = "none" -> sample_until_pass(r, lim)
    [] entry = "sample_until" /\ args.f_kind # "none" ->
         sample_until_f_args_pass(r, lim, args, k, n)
    [] entry = "sample_until_time_elapsed" -> time_elapsed_pass(r, lim)

\* the fold function: acc = fold_function(acc, x)
fold_function(a, x) == Append(a, x)

RECURSIVE SeqSum(_)
SeqSum(q) == IF q = <<>> THEN 0 ELSE Head(q) + SeqSum(Tail(q))

\* the value of the accumulator for fold_function = + (test_fold.fold_sum)
FoldSum(a, initial) == initial + SeqSum(a)

\* ------------------------------------------------------------ initial state
lim_init == [start_time |-> 0, duration |-> float_inf, num_samples |-> sys_maxsize,
             memory_percentage |-> 100]
agg_init == [pc |-> "off", finished_workers |-> 0, i |-> 0, warned |-> FALSE,
             warnings |-> 0]
no_result == [tag |-> "none", value |-> <<>>, count |-> 0]

\* the call has been made with arguments from A; nothing has run yet
InitWith(E, A) ==
  /\ entry \in E
  /\ args \in A
  /\ entry = "sample_until_time_elapsed" =>
       /\ args.f_kind = "none" /\ args.duration_seconds # None
       /\ args.num_args = 0 /\ args.num_samples = None
       /\ args.memory_percentage = None
  /\ entry # "folded_sample_until" => args.fold_num_args = 2 /\ args.batch_size = 1
  /\ pc = "call"
  /\ err = "none"
  /\ warns = <<>>
  /\ now = 0
  /\ mem \in MemLevels
  /\ lim = lim_init
  /\ conds = <<>>
  /\ nsamplers = 0
  /\ w = [k \in Workers |-> w_init]
  /\ acc = <<>>
  /\ jx = 0
  /\ queue = <<>>
  /\ agg = agg_init
  /\ aggq = <<>>
  /\ polls = 0
  /\ result = no_result

\* the input streams: absent, a canonical infinite generator, or a finite
\* stream of a length up to MaxLen with or without __len__
Streams ==
  {[f_kind |-> "none", f_len |-> 0], [f_kind |-> "infinite", f_len |-> 0]}
  \cup {[f_kind |-> k, f_len |-> n] : k \in {"sized", "unsized"}, n \in 0 .. MaxLen}

ArgsOf(S, NA, FA, D, N, M, W, B) ==
  {[f_kind |-> s.f_kind, f_len |-> s.f_len, num_args |-> na, fold_num_args |-> fa,
    duration_seconds |-> d, num_samples |-> n, memory_percentage |-> m,
    num_workers |-> nw, batch_size |-> b] :
   s \in S, na \in NA, fa \in FA, d \in D, n \in N, m \in M, nw \in W, b \in B}

\* ------------------------------------------------------------- environment
Tick ==
  /\ now < MaxTime
  /\ now' = now + 1
  /\ UNCHANGED <<entry, args, pc, err, warns, mem, lim, conds, nsamplers, w, acc,
                 jx, queue, agg, aggq, polls, result>>

MemChange ==
  /\ pc \notin {"returned", "raised"}
  /\ mem' \in MemLevels \ {mem}
  /\ UNCHANGED <<entry, args, pc, err, warns, now, lim, conds, nsamplers, w, acc,
                 jx, queue, agg, aggq, polls, result>>

\* ------------------------------------------------------------------ the call
\* The entry point from its first line to the point where it either raises,
\* enters the sequential sampler (num_workers == 1) or has built its
\* processes (num_workers > 1).
Call ==
  /\ pc = "call"
  /\ LET o == checks(entry, args, now)
         nw == o.num_workers
     IN
     /\ warns' = o.warns
     /\ IF o.err # "ok"
          THEN /\ pc' = "raised"
               /\ err' = o.err
               /\ UNCHANGED <<lim, conds, nsamplers, w, acc>>
          ELSE /\ err' = err
               /\ pc' = IF nw = 1 THEN "seq" ELSE "spawn"
               /\ w' = IF nw = 1 THEN [w EXCEPT ![0].pc = "caller"] ELSE w
               /\ acc' = <<>>
               /\ CASE entry = "sample_until" ->
                         /\ lim' = [start_time |-> now,
                                    duration |-> su_duration(args),
                                    num_samples |->
                                      IF nw = 1 THEN su_num_samples(args)
                                      ELSE ceil_div(su_num_samples(args), nw),
                                    memory_percentage |-> su_memory(args)]
                         /\ nsamplers' = nw
                         /\ UNCHANGED conds
                    [] entry = "sample_until_time_elapsed" ->
                         /\ lim' = [lim_init EXCEPT !.start_time = now,
                                                    !.duration = args.duration_seconds]
                         /\ nsamplers' = nw
                         /\ UNCHANGED conds
                    [] entry = "folded_sample_until" ->
                         /\ nsamplers' = IF nw = 1 THEN 1 ELSE nw - 1
                         /\ conds' = create_stopping_conditions(
                                       IF nw = 1 THEN 1 ELSE nw - 1,
                                       args.duration_seconds, args.num_samples,
                                       args.memory_percentage, None, now)
                         /\ UNCHANGED lim
  /\ UNCHANGED <<entry, args, now, mem, jx, queue, agg, aggq, polls, result>>

\* -------------------------------------------------- single-worker sampling
\* an unbounded stream is followed for MaxSteps items
WithinSteps(r) == r.pos < MaxSteps /\ Len(r.samples) < MaxSteps /\ r.i < MaxSteps

list_result(samples) == [tag |-> "list", value |-> samples, count |-> Len(samples)]
pair_result(a, i) == [tag |-> "pair", value |-> a, count |-> i]

\* num_workers == 1 in sample_until and sample_until_time_elapsed: the
\* caller runs the sampler and returns its list
SeqSample ==
  /\ pc = "seq"
  /\ entry # "folded_sample_until"
  /\ LET r == sampler_pass(w[0], 0, 1) IN
     /\ r.pc = "stopped" \/ WithinSteps(w[0])
     /\ w' = [w EXCEPT ![0] = r]
     /\ IF r.pc = "stopped"
          THEN pc' = "returned" /\ result' = list_result(r.samples)
          ELSE UNCHANGED <<pc, result>>
  /\ UNCHANGED <<entry, args, err, warns, now, mem, lim, conds, nsamplers, acc,
                 jx, queue, agg, aggq, polls>>

\* variant of SeqFolded: the conditions are checked before the item is
\* taken, as the list-based samplers do
SeqFolded_check_first ==
  /\ pc = "seq"
  /\ entry = "folded_sample_until"
  /\ IF exhausted(args, 0, 1, w[0].pos)
       THEN /\ pc' = "returned"
            /\ result' = pair_result(acc, w[0].i)
            /\ w' = [w EXCEPT ![0].pc = "stopped", ![0].msg = "all f_args were used"]
            /\ acc' = acc
       ELSE LET k == stop_index(conds, w[0].i) IN
            IF k # 0
              THEN /\ pc' = "returned"
                   /\ result' = pair_result(acc, w[0].i)
                   /\ w' = [w EXCEPT ![0].pc = "stopped",
                                     ![0].msg = stop_message(conds[k])]
                   /\ acc' = acc
              ELSE /\ WithinSteps(w[0])
                   /\ acc' = fold_function(acc, f(ArgAt(args.f_kind,
                                                        slice_pos(0, 1, w[0].pos))))
                   /\ w' = [w EXCEPT ![0].pos = @ + 1, ![0].i = @ + 1]
                   /\ UNCHANGED <<pc, result>>
  /\ UNCHANGED <<entry, args, err, warns, now, mem, lim, conds, nsamplers,
                 jx, queue, agg, aggq, polls>>

\* sample_until_folded._sample_until_folded, run by the caller
SeqFolded ==
  /\ pc = "seq"
  /\ entry = "folded_sample_until"
  /\ IF exhausted(args, 0, 1, w[0].pos)
       THEN /\ pc' = "returned"
            /\ result' = pair_result(acc, w[0].i)
            /\ w' = [w EXCEPT ![0].pc = "stopped", ![0].msg = "all f_args were used"]
            /\ acc' = acc
       ELSE LET i2 == w[0].i + 1
                k == stop_index(conds, i2)
            IN
            /\ WithinSteps(w[0])
            /\ acc' = fold_function(acc, f(ArgAt(args.f_kind, slice_pos(0, 1, w[0].pos))))
            /\ w' = [w EXCEPT ![0].pos = @ + 1, ![0].i = i2,
                              ![0].pc = IF k # 0 THEN "stopped" ELSE @,
                              ![0].msg = IF k # 0 THEN stop_message(conds[k]) ELSE @,
                              ![0].evaluated = stop_loop(conds, i2, 1).evaluated]
            /\ IF k # 0
                 THEN pc' = "returned" /\ result' = pair_result(acc', i2)
                 ELSE UNCHANGED <<pc, result>>
  /\ UNCHANGED <<entry, args, err, warns, now, mem, lim, conds, nsamplers,
                 jx, queue, agg, aggq, polls>>

\* ------------------------------------------------------ parallel sampling
Samplers == 0 .. (nsamplers - 1)

\* the caller starts its processes: the aggregator first (folded), then every
\* sampling process
Spawn ==
  /\ pc = "spawn"
  /\ pc' = "join"
  /\ jx' = 0
  /\ w' = [k \in Workers |-> IF k \in Samplers THEN [w[k] EXCEPT !.pc = "run"] ELSE w[k]]
  /\ agg' = IF entry = "folded_sample_until" THEN [agg EXCEPT !.pc = "loop"] ELSE agg
  /\ UNCHANGED <<entry, args, err, warns, now, mem, lim, conds, nsamplers, acc,
                 queue, aggq, polls, result>>

\* sample_until._worker / _worker_f_args / time_elapsed._worker: one pass of
\* the sampler loop in process k
WorkerSample(k) ==
  /\ entry # "folded_sample_until"
  /\ k \in Samplers
  /\ w[k].pc = "run"
  /\ LET r == sampler_pass(w[k], k, nsamplers) IN
     /\ r.pc = "stopped" \/ WithinSteps(w[k])
     /\ w' = [w EXCEPT ![k] = r]
  /\ UNCHANGED <<entry, args, pc, err, warns, now, mem, lim, conds, nsamplers, acc,
                 jx, queue, agg, aggq, polls, result>>

\* ... and its output.put(local_samples), after which the process ends
WorkerPut(k) ==
  /\ entry # "folded_sample_until"
  /\ k \in Samplers
  /\ w[k].pc = "stopped"
  /\ queue' = Append(queue, w[k].samples)
  /\ w' = [w EXCEPT ![k].pc = "done"]
  /\ UNCHANGED <<entry, args, pc, err, warns, now, mem, lim, conds, nsamplers, acc,
                 jx, agg, aggq, polls, result>>

\* variant of Join: the caller goes on without waiting for the process
Join_nowait ==
  /\ pc = "join"
  /\ IF entry = "folded_sample_until"
       THEN pc' = "put_done" /\ jx' = jx
       ELSE /\ jx' = jx + 1
            /\ pc' = IF jx + 1 = nsamplers THEN "gather" ELSE "join"
  /\ UNCHANGED <<entry, args, err, warns, now, mem, lim, conds, nsamplers, w, acc,
                 queue, agg, aggq, polls, result>>

\* f raises inside worker k (or the process is killed): the process ends
\* without its output.put(local_samples)
WorkerCrash(k) ==
  /\ entry # "folded_sample_until"
  /\ k \in Samplers
  /\ w[k].pc = "run"
  /\ w' = [w EXCEPT ![k].pc = "done", ![k].msg = "crashed"]
  /\ UNCHANGED <<entry, args, pc, err, warns, now, mem, lim, conds, nsamplers, acc,
                 jx, queue, agg, aggq, polls, result>>

\* p.join() of process jx returns once that process has ended
Join ==
  /\ pc = "join"
  /\ w[jx].pc = "done"
  /\ IF entry = "folded_sample_until"
       THEN pc' = "put_done" /\ jx' = jx
       ELSE /\ jx' = jx + 1
            /\ pc' = IF jx + 1 = nsamplers THEN "gather" ELSE "join"
  /\ UNCHANGED <<entry, args, err, warns, now, mem, lim, conds, nsamplers, w, acc,
                 queue, agg, aggq, polls, result>>

\* variant of Flatten: only the first item of the queue is taken
Flatten_first(q) == IF q = <<>> THEN <<>> ELSE Head(q)

\* all_samples = get(), then all_samples.extend(get()) for every further item
RECURSIVE Flatten(_)
Flatten(q) == IF q = <<>> THEN <<>> ELSE Head(q) \o Flatten(Tail(q))

\* "Gather results": all_samples = output_queue.get(), which waits for an
\* item, then extend with every further item until the queue is empty
Gather ==
  /\ pc = "gather"
  /\ queue # <<>>
  /\ result' = list_result(Flatten(queue))
  /\ queue' = <<>>
  /\ pc' = "returned"
  /\ UNCHANGED <<entry, args, err, warns, now, mem, lim, conds, nsamplers, w, acc,
                 jx, agg, aggq, polls>>

\* ------------------------------------------------------ the folding pipeline
\* the items of output_queue: a batch of samples, or a DoneSignal
DoneSignal == [kind |-> "DoneSignal", samples |-> <<>>]
Batch(b) == [kind |-> "batch", samples |-> b]

\* mp.Queue(2 * num_workers)
capacity == QueueFactor * nsamplers

\* variant of full: a put still succeeds when the queue holds `capacity` items
full_above(q) == Len(q) > capacity

\* output_queue.full(), and the condition under which put() waits
full(q) == Len(q) >= capacity

\* variant of after_item: a stop ends the worker without flushing its batch
after_item_no_flush(r) ==
  LET i2 == r.i + 1
      k == stop_index(conds, i2)
  IN  [r EXCEPT !.i = i2,
                !.msg = IF k # 0 THEN stop_message(conds[k]) ELSE @,
                !.evaluated = stop_loop(conds, i2, 1).evaluated,
                !.pc = IF k = 0 THEN "run" ELSE "done"]

\* what sample_until_folded._worker does after a batch was handled: i += 1
\* and the stop check, with the partial batch flushed on a stop
after_item(r) ==
  LET i2 == r.i + 1
      k == stop_index(conds, i2)
  IN  [r EXCEPT !.i = i2,
                !.msg = IF k # 0 THEN stop_message(conds[k]) ELSE @,
                !.evaluated = stop_loop(conds, i2, 1).evaluated,
                !.pc = IF k = 0 THEN "run"
                       ELSE IF Len(r.batch) > 0 THEN "flush" ELSE "done"]

\* variant of batch_ready: the batch is sent once it exceeds batch_size
batch_ready_late(batch, size) == Len(batch) > size

\* _worker: if len(batch) >= batch_size
batch_ready(batch, size) == Len(batch) >= size

\* sample_until_folded._worker: the next item of the slice is appended to
\* the batch; a full batch goes to the queue (FoldPutBatch), otherwise the
\* loop goes on; an exhausted slice ends the loop
FoldSample(k) ==
  /\ entry = "folded_sample_until"
  /\ k \in Samplers
  /\ w[k].pc = "run"
  /\ IF exhausted(args, k, nsamplers, w[k].pos)
       THEN w' = [w EXCEPT ![k].msg = "all f_args were used",
                           ![k].pc = IF Len(w[k].batch) > 0 THEN "flush" ELSE "done"]
       ELSE LET x == f(ArgAt(args.f_kind, slice_pos(k, nsamplers, w[k].pos)))
                r == [w[k] EXCEPT !.pos = @ + 1, !.batch = Append(@, x)]
            IN  /\ WithinSteps(w[k])
                /\ w' = [w EXCEPT ![k] =
                           IF batch_ready(r.batch, args.batch_size)
                             THEN [r EXCEPT !.pc = "put_batch"]
                             ELSE after_item(r)]
  /\ UNCHANGED <<entry, args, pc, err, warns, now, mem, lim, conds, nsamplers, acc,
                 jx, queue, agg, aggq, polls, result>>

\* output_queue.put(batch) inside the loop: waits while the queue is full
FoldPutBatch(k) ==
  /\ entry = "folded_sample_until"
  /\ k \in Samplers
  /\ w[k].pc = "put_batch"
  /\ ~full(queue)
  /\ queue' = Append(queue, Batch(w[k].batch))
  /\ w' = [w EXCEPT ![k] = after_item([w[k] EXCEPT !.batch = <<>>])]
  /\ UNCHANGED <<entry, args, pc, err, warns, now, mem, lim, conds, nsamplers, acc,
                 jx, agg, aggq, polls, result>>

\* variant of FoldFlush: the worker folds its partial batch itself
FoldFlush_folds(k) ==
  /\ entry = "folded_sample_until"
  /\ k \in Samplers
  /\ w[k].pc = "flush"
  /\ acc' = acc \o w[k].batch
  /\ w' = [w EXCEPT ![k].pc = "done"]
  /\ UNCHANGED <<entry, args, pc, err, warns, now, mem, lim, conds, nsamplers,
                 jx, queue, agg, aggq, polls, result>>

\* output_queue.put(batch) of the partial batch when the loop has ended
FoldFlush(k) ==
  /\ entry = "folded_sample_until"
  /\ k \in Samplers
  /\ w[k].pc = "flush"
  /\ ~full(queue)
  /\ queue' = Append(queue, Batch(w[k].batch))
  /\ w' = [w EXCEPT ![k].pc = "done"]
  /\ UNCHANGED <<entry, args, pc, err, warns, now, mem, lim, conds, nsamplers, acc,
                 jx, agg, aggq, polls, result>>

\* the caller's output_queue.put(DoneSignal()) after joining process jx
PutDone ==
  /\ pc = "put_done"
  /\ ~full(queue)
  /\ queue' = Append(queue, DoneSignal)
  /\ jx' = jx + 1
  /\ pc' = IF jx + 1 = nsamplers THEN "poll" ELSE "join"
  /\ UNCHANGED <<entry, args, err, warns, now, mem, lim, conds, nsamplers, w, acc,
                 agg, aggq, polls, result>>

\* variant of FoldAll: only the first sample of a batch is folded
FoldAll_first(a, batch) == IF batch = <<>> THEN a ELSE fold_function(a, Head(batch))

\* for x in item: acc = fold_function(acc, x)
RECURSIVE FoldAll(_, _)
FoldAll(a, batch) ==
  IF batch = <<>> THEN a ELSE FoldAll(fold_function(a, Head(batch)), Tail(batch))

\* variant of agg_running: the loop ends one DoneSignal early
agg_running_one_short(a, n) == a.finished_workers < n - 1

\* the test of _aggregate's loop: while finished_workers < num_workers
agg_running(a, n) == a.finished_workers < n

\* variant of agg_warns: the flag is not consulted
agg_warns_always(a, q) == full(q)

\* _aggregate: if not warned and output_queue.full()
agg_warns(a, q) == ~a.warned /\ full(q)

\* sample_until_folded._aggregate, head of the while loop: leave the loop and
\* publish (acc, i), or warn once if the queue is full and go on to get()
AggLoop ==
  /\ agg.pc = "loop"
  /\ IF agg_running(agg, nsamplers)
       THEN /\ agg' = [agg EXCEPT !.pc = "get",
                                  !.warned = @ \/ agg_warns(agg, queue),
                                  !.warnings = IF agg_warns(agg, queue)
                                                 THEN @ + 1 ELSE @]
            /\ UNCHANGED aggq
       ELSE /\ aggq' = Append(aggq, pair_result(acc, agg.i))
            /\ agg' = [agg EXCEPT !.pc = "published"]
  /\ UNCHANGED <<entry, args, pc, err, warns, now, mem, lim, conds, nsamplers, w, acc,
                 jx, queue, polls, result>>

\* _aggregate returns after aggregator_queue.put((acc, i)) and the process ends
AggExit ==
  /\ agg.pc = "published"
  /\ agg' = [agg EXCEPT !.pc = "done"]
  /\ UNCHANGED <<entry, args, pc, err, warns, now, mem, lim, conds, nsamplers, w, acc,
                 jx, queue, aggq, polls, result>>

\* item = output_queue.get() and its handling
AggGet ==
  /\ agg.pc = "get"
  /\ queue # <<>>
  /\ queue' = Tail(queue)
  /\ IF Head(queue).kind = "DoneSignal"
       THEN /\ agg' = [agg EXCEPT !.pc = "loop", !.finished_workers = @ + 1]
            /\ acc' = acc
       ELSE /\ agg' = [agg EXCEPT !.pc = "loop", !.i = @ + Len(Head(queue).samples)]
            /\ acc' = FoldAll(acc, Head(queue).samples)
  /\ UNCHANGED <<entry, args, pc, err, warns, now, mem, lim, conds, nsamplers, w,
                 jx, aggq, polls, result>>

\* the aggregator process ends without publishing (fold_function raises, or
\* the process is killed)
AggCrash ==
  /\ agg.pc \in {"loop", "get"}
  /\ agg' = [agg EXCEPT !.pc = "crashed"]
  /\ UNCHANGED <<entry, args, pc, err, warns, now, mem, lim, conds, nsamplers, w, acc,
                 jx, queue, aggq, polls, result>>

\* aggregator.is_alive()
is_alive == agg.pc \in {"loop", "get", "published"}

\* variant of PollGet: the result is returned without aggregator.join()
PollGet_nojoin ==
  /\ pc = "poll"
  /\ aggq # <<>>
  /\ result' = Head(aggq)
  /\ aggq' = Tail(aggq)
  /\ pc' = "returned"
  /\ UNCHANGED <<entry, args, err, warns, now, mem, lim, conds, nsamplers, w, acc,
                 jx, queue, agg, polls>>

\* output = aggregator_queue.get(timeout=20) succeeds; aggregator.join();
\* return output
PollGet ==
  /\ pc = "poll"
  /\ aggq # <<>>
  /\ ~is_alive
  /\ result' = Head(aggq)
  /\ aggq' = Tail(aggq)
  /\ pc' = "returned"
  /\ UNCHANGED <<entry, args, err, warns, now, mem, lim, conds, nsamplers, w, acc,
                 jx, queue, agg, polls>>

\* aggregator_queue.get(timeout=20) raises Empty: nothing was published
\* during the wait
PollTimeout ==
  /\ pc = "poll"
  /\ aggq = <<>>
  /\ polls < MaxPolls \/ ~is_alive
  /\ polls' = polls + 1
  /\ pc' = "check_alive"
  /\ UNCHANGED <<entry, args, err, warns, now, mem, lim, conds, nsamplers, w, acc,
                 jx, queue, agg, aggq, result>>

\* the except branch and the rest of the loop body: raise if the aggregator
\* is not alive, else warn (`warned` was reset at the top of the iteration)
\* and poll again
CheckAlive ==
  /\ pc = "check_alive"
  /\ IF ~is_alive
       THEN /\ pc' = "raised"
            /\ err' = "Folding process crashed!"
            /\ UNCHANGED warns
       ELSE /\ pc' = "poll"
            /\ warns' = Append(warns, "waiting for the folding process")
            /\ UNCHANGED err
  /\ UNCHANGED <<entry, args, now, mem, lim, conds, nsamplers, w, acc,
                 jx, queue, agg, aggq, polls, result>>

\* --------------------------------------------- specification: single worker
Entries == {"sample_until", "folded_sample_until", "sample_until_time_elapsed"}

CallArgs ==
  ArgsOf(Streams, {Unknown, 0, 1, 2}, {2}, {None, -1, 0, 2},
         {None, -1, 0, 1, 2}, {None, -5, 50, 150}, {None, -2, -1, 0, 1, 2}, {1})
  \cup ArgsOf({[f_kind |-> "sized", f_len |-> MaxLen]}, {1}, {Unknown, 1},
              {None}, {None, 2}, {None}, {None, 1}, {1})

InitCall == InitWith(Entries, CallArgs)

NextCall == Call \/ SeqSample \/ SeqFolded \/ Tick \/ MemChange

SpecCall == InitCall /\ [][NextCall]_vars


\* --------------------------------- specification: parallel, without folding
\* streams given to a parallel run: none, a canonical infinite generator, or
\* a sized stream
ParStreams ==
  {[f_kind |-> "none", f_len |-> 0], [f_kind |-> "infinite", f_len |-> 0]}
  \cup {[f_kind |-> "sized", f_len |-> n] : n \in 0 .. MaxLen}

ArityOf(a) == IF a.f_kind = "none" THEN 0 ELSE 1

ParArgs ==
  {a \in ArgsOf(ParStreams, {0, 1}, {2}, {None}, {None} \cup (1 .. MaxCount),
                {None}, 2 .. MaxWorkers, {1}) :
     /\ a.num_args = ArityOf(a)
     /\ ~(no_conditions(a) /\ ~Finite(a.f_kind))}

InitPar == InitWith({"sample_until"}, ParArgs)

NextPar ==
  \/ Call
  \/ Spawn
  \/ \E k \in Workers : WorkerSample(k)
  \/ \E k \in Workers : WorkerPut(k)
  \/ Join
  \/ Gather

SpecPar == InitPar /\ [][NextPar]_vars

\* ... with workers that may end without putting their list
NextParCrash == NextPar \/ \E k \in Workers : WorkerCrash(k)

SpecParCrash == InitPar /\ [][NextParCrash]_vars

\* ------------------------------------------- specification: folding pipeline
FoldArgs ==
  {a \in ArgsOf(ParStreams, {0, 1}, {2}, {None}, {None} \cup (1 .. MaxCount),
                {None}, 1 .. MaxWorkers, 1 .. MaxBatch) :
     /\ a.num_args = ArityOf(a)
     /\ ~(no_conditions(a) /\ ~Finite(a.f_kind))}

InitFold == InitWith({"folded_sample_until"}, FoldArgs)

NextFold ==
  \/ Call
  \/ SeqFolded
  \/ Spawn
  \/ \E k \in Workers : FoldSample(k)
  \/ \E k \in Workers : FoldPutBatch(k)
  \/ \E k \in Workers : FoldFlush(k)
  \/ AggLoop
  \/ AggGet
  \/ AggExit
  \/ Join
  \/ PutDone
  \/ PollGet
  \/ PollTimeout
  \/ CheckAlive

SpecFold == InitFold /\ [][NextFold]_vars

\* ... under fair scheduling: every process that can take a step, and stays
\* able to, eventually takes one
WorkerStep(k) == FoldSample(k) \/ FoldPutBatch(k) \/ FoldFlush(k)
AggregatorStep == AggLoop \/ AggGet \/ AggExit
CallerStep ==
  Call \/ SeqFolded \/ Spawn \/ Join \/ PutDone \/ PollGet \/ PollTimeout \/ CheckAlive

FairFold ==
  /\ \A k \in Workers : WF_vars(WorkerStep(k))
  /\ WF_vars(AggregatorStep)
  /\ WF_vars(CallerStep)

SpecFoldFair == InitFold /\ [][NextFold]_vars /\ FairFold

\* ... with an aggregator that may end without publishing
NextFoldCrash == NextFold \/ AggCrash

SpecFoldCrash == InitFold /\ [][NextFoldCrash]_vars


\* -------------------------- specification: fan-out, with and without folding
InitFan == InitPar \/ InitFold

NextFan == NextPar \/ NextFold

SpecFan == InitFan /\ [][NextFan]_vars

\* ------------------------------- specification: the stopping conditions alone
\* create_stopping_conditions is called with arguments from StopArgs, time
\* passes and memory changes, and stop(conditions, samples) is called once
\* with len(samples) = args.progress
StopArgs ==
  {[f_kind |-> "none", f_len |-> 0, num_args |-> 0, fold_num_args |-> 2,
    batch_size |-> 1, num_workers |-> nw, duration_seconds |-> d,
    num_samples |-> n, memory_percentage |-> m, size_mb |-> sz,
    progress |-> p, sample_size |-> ss, first_size |-> fs] :
   nw \in 1 .. 2, d \in {None, 1, 2}, n \in {None, 2, 3}, m \in {None, 50},
   sz \in {None, 0, 2, 4}, p \in 0 .. MaxCount, ss \in 1 .. 2, fs \in 3 .. 4}

InitStop == InitWith({"stop"}, StopArgs)

\* stopping_conditions.create_stopping_conditions, with the __post_init__
\* checks of the conditions it builds
CreateConditions ==
  /\ pc = "call"
  /\ entry = "stop"
  /\ LET scs == create_stopping_conditions(args.num_workers, args.duration_seconds,
                                           args.num_samples, args.memory_percentage,
                                           args.size_mb, now)
         e == conditions_error(scs)
     IN  IF e # "ok"
           THEN pc' = "raised" /\ err' = e /\ UNCHANGED conds
           ELSE pc' = "created" /\ conds' = scs /\ UNCHANGED err
  /\ UNCHANGED <<entry, args, warns, now, mem, lim, nsamplers, w, acc,
                 jx, queue, agg, aggq, polls, result>>

bool_result(b) == [tag |-> "bool", value |-> <<>>, count |-> IF b THEN 1 ELSE 0]

\* stop(stopping_conditions, samples) with len(samples) = p: the message
\* printed, the value returned and the conditions as the call leaves them
stop_call(p) ==
  LET r == stop_loop(conds, p, 1) IN
  /\ w' = [w EXCEPT ![0].i = p,
                    ![0].evaluated = r.evaluated,
                    ![0].msg = IF r.index # 0 THEN stop_message(conds[r.index])
                               ELSE "none"]
  /\ result' = bool_result(r.index # 0)
  /\ conds' = after_stop(conds, p)
  /\ pc' = "returned"
  /\ UNCHANGED <<entry, args, err, warns, now, mem, lim, nsamplers, acc,
                 jx, queue, agg, aggq, polls>>

\* the first call of stop on the conditions created
StopCall ==
  /\ pc = "created"
  /\ stop_call(args.progress)

\* a later call of stop on the same conditions: the list of samples has
\* not become shorter
StopAgain ==
  /\ pc = "returned"
  /\ entry = "stop"
  /\ \E p \in w[0].i .. MaxCount : stop_call(p)

NextStop == CreateConditions \/ StopCall \/ StopAgain \/ Tick \/ MemChange

SpecStop == InitStop /\ [][NextStop]_vars

\* ===================================================================== claims
\* the samples of the first n inputs, in input order
InOrder(n) == [j \in 1 .. n |-> f(ArgAt(args.f_kind, j - 1))]

\* the input stream has at least n items
EnoughInput(n) == ~Finite(args.f_kind) \/ args.f_len >= n

\* q holds the samples of the first n inputs, each once, in some order
IsPermutationOfFirst(q, n) ==
  /\ Len(q) = n
  /\ \A p \in 0 .. (n - 1) : \E j \in 1 .. Len(q) : q[j] = f(ArgAt(args.f_kind, p))

\* the time condition of the run is not satisfied now
TimeQuiet ==
  IF entry = "folded_sample_until"
    THEN \A k \in 1 .. Len(conds) :
           conds[k].kind = "TimeElapsed" => (now - conds[k].start_time) < conds[k].limit
    ELSE (now - lim.start_time) < lim.duration

\* the memory condition of the run is not satisfied now
MemQuiet ==
  IF entry = "folded_sample_until"
    THEN \A k \in 1 .. Len(conds) :
           conds[k].kind = "MemoryPercentage" => mem < conds[k].limit
    ELSE mem < lim.memory_percentage

\* the caller itself ran the sampler (num_workers == 1) and has returned
ReturnedSequential == pc = "returned" /\ w[0].pc = "stopped" /\ agg.pc = "off"

CountEntries == {"sample_until", "folded_sample_until"}

C3_ParallelCount ==
  LET c == args.num_samples
      N == args.num_workers
      t == (c + N - 1) \div N
  IN  (entry = "sample_until" /\ pc = "returned" /\ c # None /\ EnoughInput(N * t)) =>
        /\ result.count = N * t
        /\ result.count >= c
        /\ result.count <= c + N
        /\ (c % N = 0 => result.count = c)

C3_Witness ==
  /\ entry = "sample_until" /\ pc = "returned"
  /\ args.num_workers = 3 /\ args.num_samples = 4 /\ args.f_kind = "infinite"
  /\ result.count = 6

PosOf(x) == (x - 1) \div 2

ValuesOf(q) == {q[j] : j \in 1 .. Len(q)}

\* the positions covered when the run ends: the whole finite input when no
\* condition is given, the first N * ceil(count / N) positions (or the whole
\* input, if shorter) under a count condition
CoveredPrefix ==
  LET c == args.num_samples
      N == nsamplers
      share == N * ((c + N - 1) \div N)
  IN  IF c = None THEN args.f_len
      ELSE IF Finite(args.f_kind) /\ args.f_len < share THEN args.f_len
      ELSE share

C8_NonPositiveCountRejected ==
  (entry \in CountEntries /\ args.num_samples # None /\ args.num_samples <= 0) =>
     /\ pc # "returned"
     /\ \A k \in Workers : w[k].samples = <<>> /\ w[k].pos = 0
     /\ acc = <<>>

\* nothing has been started and f has not been applied
NothingRan ==
  /\ \A k \in Workers : w[k] = w_init
  /\ agg = agg_init
  /\ acc = <<>> /\ queue = <<>> /\ result = no_result

ConfigErrors ==
  {"arity", "no_stopping_condition", "duration", "num_samples", "memory",
   "num_workers", "fold_arity"}

BadWorkers == args.num_workers # None /\ args.num_workers # -1 /\ args.num_workers < 1
BadDuration == args.duration_seconds # None /\ args.duration_seconds <= 0
BadMemory ==
  /\ args.memory_percentage # None
  /\ (args.memory_percentage < 0 \/ args.memory_percentage > 100)

OtherwiseValid ==
  /\ check_f_valid(args) = "ok"
  /\ ~BadWorkers
  /\ args.fold_num_args \in {Unknown, 2}

OnlyDuration ==
  /\ args.duration_seconds # None /\ args.duration_seconds > 0
  /\ args.num_samples = None /\ args.memory_percentage = None
  /\ ~Finite(args.f_kind)

\* time.time() - start_time of the run
Elapsed ==
  IF entry = "folded_sample_until"
    THEN (IF conds = <<>> THEN 0 ELSE now - conds[1].start_time)
    ELSE now - lim.start_time

\* C11: a single-worker run whose only condition is a duration d over an
\* unbounded input has not returned while elapsed < d; every pass of a
\* sampler that tests before it samples applies f only when its test saw
\* elapsed < d; a pass of the folding sampler, which tests after it samples,
\* returns at once when its test sees elapsed >= d; and once a test has seen
\* elapsed >= d no further sample is taken or folded.
C11_TimeBoundSingleWorker ==
  /\ []((OnlyDuration /\ ReturnedSequential) => Elapsed >= args.duration_seconds)
  /\ [][(/\ OnlyDuration /\ pc = "seq" /\ entry # "folded_sample_until"
         /\ Len(w[0].samples') > Len(w[0].samples))
          => Elapsed < args.duration_seconds]_vars
  /\ [][(/\ OnlyDuration /\ pc = "seq" /\ entry = "folded_sample_until"
         /\ acc' # acc /\ Elapsed' >= args.duration_seconds)
          => pc' = "returned"]_vars
  /\ [][(OnlyDuration /\ w[0].pc = "stopped")
          => (w[0].samples' = w[0].samples /\ acc' = acc)]_vars

C11_Witness ==
  /\ OnlyDuration /\ ReturnedSequential
  /\ entry = "sample_until_time_elapsed"
  /\ lim.start_time = 0 /\ now = args.duration_seconds
  /\ result.count >= 2

\* the number of applications of f made by the sampling workers so far
Applications == SeqSum([k \in 1 .. nsamplers |-> w[k - 1].pos])

\* the samples the sampling workers have produced so far
Produced ==
  UNION {{f(ArgAt(args.f_kind, slice_pos(k, nsamplers, j))) :
            j \in 0 .. (w[k].pos - 1)} : k \in Samplers}

FoldedParallel == entry = "folded_sample_until" /\ agg.pc # "off"

\* the DoneSignals put so far that the aggregator has counted or that are
\* among the first p items of output_queue
DonesUpTo(p) ==
  agg.finished_workers
    + Cardinality({j \in 1 .. p : queue[j].kind = "DoneSignal"})

\* the worker a sample comes from (its input position modulo the number of
\* samplers)
WorkerOf(x) == PosOf(x) % nsamplers

\* the samples of the batches in output_queue
QueuedSamples ==
  UNION {ValuesOf(queue[j].samples) : j \in 1 .. Len(queue)}

\* the samples of worker k
ProducedBy(k) ==
  {f(ArgAt(args.f_kind, slice_pos(k, nsamplers, j))) : j \in 0 .. (w[k].pos - 1)}

PipelineDrains ==
  (args.num_workers >= 2) =>
     <>(/\ agg.pc = "done" /\ jx = nsamplers /\ queue = <<>>
        /\ \A k \in Samplers : w[k].pc = "done"
        /\ Len(acc) = Applications
        /\ \/ pc = "returned" /\ result = pair_result(acc, Applications)
           \/ pc = "raised" /\ aggq = <<pair_result(acc, Applications)>>)

\* the samples a worker still holds in the batch it is filling or putting
PendingSamples ==
  UNION {IF w[k].pc \in {"run", "put_batch", "flush"}
           THEN ValuesOf(w[k].batch) ELSE {} : k \in Samplers}

PendingCount ==
  SeqSum([k \in 1 .. nsamplers |->
            IF w[k - 1].pc \in {"run", "put_batch", "flush"}
              THEN Len(w[k - 1].batch) ELSE 0])

QueuedCount == SeqSum([j \in 1 .. Len(queue) |-> Len(queue[j].samples)])

Emitted(m) == Cardinality({j \in 1 .. Len(warns) : warns[j] = m})

CallerOrWorkerStep ==
  \/ pc' # pc \/ jx' # jx \/ polls' # polls \/ warns' # warns
  \/ err' # err \/ result' # result \/ w' # w

RegistrationOrder == <<"TimeElapsed", "NumSamples", "MemoryPercentage", "OutputSize">>

\* the call registered a condition of this kind
Registered(kind) ==
  CASE kind = "TimeElapsed" -> args.duration_seconds # None
    [] kind = "NumSamples" -> args.num_samples # None
    [] kind = "MemoryPercentage" -> args.memory_percentage # None
    [] kind = "OutputSize" -> args.size_mb # None

\* the condition of this kind is satisfied by len(samples) = args.progress,
\* stated from the arguments of the call
Satisfied(kind) ==
  CASE kind = "TimeElapsed" -> now - conds[1].start_time >= args.duration_seconds
    [] kind = "NumSamples" -> args.progress * args.num_workers >= args.num_samples
    [] kind = "MemoryPercentage" -> mem >= args.memory_percentage
    [] kind = "OutputSize" ->
         /\ args.progress >= 2
         /\ args.sample_size * args.progress * args.num_workers >= args.size_mb

\* the positions in RegistrationOrder of the registered and satisfied kinds
Firing == {j \in 1 .. 4 : Registered(RegistrationOrder[j])
                            /\ Satisfied(RegistrationOrder[j])}

FirstFiring == CHOOSE j \in Firing : \A j2 \in Firing : j <= j2

\* the kinds of the conditions a stop call evaluated, in call order
EvaluatedKinds(r) == [j \in 1 .. Len(r.evaluated) |-> conds[r.evaluated[j]].kind]

\* the registered kinds among the first n of RegistrationOrder, in that order
RECURSIVE RegisteredUpTo(_)
RegisteredUpTo(n) ==
  IF n = 0 THEN <<>>
  ELSE RegisteredUpTo(n - 1)
         \o (IF Registered(RegistrationOrder[n]) THEN <<RegistrationOrder[n]>>
             ELSE <<>>)

\* C20: a call of stop(conditions, samples) returns True exactly when some
\* registered condition is satisfied; it then prints the message of the
\* first satisfied one in the order time, count, memory, size, having
\* evaluated the registered conditions in that order up to and including
\* that one and none after it; when none is satisfied it has evaluated all
\* of them, in that order, and prints nothing.
C20_StopFirstSatisfied ==
  [][(entry = "stop" /\ pc = "created" /\ pc' = "returned") =>
       IF Firing = {}
         THEN /\ result' = bool_result(FALSE)
              /\ w'[0].msg = "none"
              /\ EvaluatedKinds(w'[0]) = RegisteredUpTo(4)
         ELSE /\ result' = bool_result(TRUE)
              /\ w'[0].msg = stop_message([kind |-> RegistrationOrder[FirstFiring]])
              /\ EvaluatedKinds(w'[0]) = RegisteredUpTo(FirstFiring)]_vars

\* time and count are both satisfied, memory and size are registered too:
\* the time message is printed and only the time condition was evaluated
C20_Witness ==
  /\ entry = "stop" /\ pc = "returned" /\ Len(conds) = 4
  /\ now - conds[1].start_time >= args.duration_seconds
  /\ args.progress * args.num_workers >= args.num_samples
  /\ result = bool_result(TRUE)
  /\ w[0].msg = "time elapsed" /\ w[0].evaluated = <<1>>

\* the caller runs, or has run, the sequential folding sampler
SequentialFold ==
  entry = "folded_sample_until" /\ pc \in {"seq", "returned"} /\ agg.pc = "off"

SamplerOrders ==
  {o \in [1 .. nsamplers -> Samplers] :
     \A j1, j2 \in 1 .. nsamplers : j1 # j2 => o[j1] # o[j2]}

\* the local sequences of the samplers, concatenated in the order o
Concatenated(o) == Flatten([j \in 1 .. nsamplers |-> w[o[j]].samples])

\* C22: a parallel run without folding in which every worker has put its
\* local sequence returns the concatenation of those N sequences in some
\* order of the workers: each sequence is one contiguous block in its
\* worker's production order, and the length is the sum of the workers'
\* lengths.
C22_GatherConcatenates ==
  (entry = "sample_until" /\ pc = "returned" /\ args.num_workers >= 2) =>
     /\ \A k \in Samplers : w[k].pc = "done"
     /\ \E o \in SamplerOrders : result.value = Concatenated(o)
     /\ result.count = SeqSum([k \in 1 .. nsamplers |-> Len(w[k - 1].samples)])
     /\ Len(result.value) = result.count

C22_Witness ==
  /\ entry = "sample_until" /\ pc = "returned" /\ nsamplers = 3
  /\ args.f_kind = "infinite" /\ args.num_samples = 4
  /\ result.value = w[1].samples \o w[2].samples \o w[0].samples
  /\ Len(w[0].samples) = 2

\* C23 (as claimed): once the caller of a parallel run without folding has
\* joined all N workers, its gather step can be taken whatever number of
\* lists is on the results queue, zero included.
C23_GatherNeverBlocks ==
  (entry # "folded_sample_until" /\ pc = "gather") => ENABLED Gather

Unsent(k) == IF w[k].pc \in {"run", "put_batch", "flush"} THEN Len(w[k].batch) ELSE 0

\* the samples of worker k that are in the queue or folded
SentBy(k) == {x \in QueuedSamples \cup ValuesOf(acc) : WorkerOf(x) = k}

IsStopCall ==
  /\ entry = "stop" /\ pc \in {"created", "returned"} /\ pc' = "returned"
  /\ now' = now

\* the call of stop made in this step called the stop() of condition z
EvaluatedIn(z) == \E j \in 1 .. Len(w'[0].evaluated) : w'[0].evaluated[j] = z

\* C26: the size condition is registered last, with the requested size and
\* the worker count it is divided by. Over calls of stop with a list of
\* samples that never gets shorter: a call with fewer than 2 samples does
\* not fire it and leaves it uncalibrated; the first call that evaluates it
\* with at least 2 samples sets its estimate to the serialized size the
\* second sample adds to the first, and no later call changes the estimate;
\* and a call that evaluates it with at least 2 samples fires it exactly
\* when estimate * count >= size_mb / num_workers.
C26_OutputSize ==
  [][(IsStopCall /\ args.size_mb # None) =>
       LET z == Len(conds)
           n == w'[0].i
           fired == w'[0].msg = "output size exceeded"
       IN  /\ conds[z].kind = "OutputSize"
           /\ conds[z].limit = args.size_mb /\ conds[z].div = args.num_workers
           /\ n < 2 => (~fired /\ conds'[z].size_estimate = 0)
           /\ ~EvaluatedIn(z) =>
                (~fired /\ conds'[z].size_estimate = conds[z].size_estimate)
           /\ (EvaluatedIn(z) /\ n >= 2) =>
                /\ conds'[z].size_estimate =
                     IF conds[z].size_estimate = 0
                       THEN estimate_size(2) - estimate_size(1)
                       ELSE conds[z].size_estimate
                /\ conds'[z].size_estimate = args.sample_size
                /\ fired <=>
                     (conds'[z].size_estimate * n * args.num_workers >= args.size_mb)]_vars

C26_Witness ==
  /\ entry = "stop" /\ pc = "returned" /\ Len(conds) = 1
  /\ args.size_mb = 4 /\ args.num_workers = 2 /\ args.sample_size = 1
  /\ args.progress = 1
  /\ conds[1].size_estimate = 1
  /\ w[0].i = 2 /\ w[0].msg = "output size exceeded" /\ result = bool_result(TRUE)

====
